---- MODULE Spec2Model ----
(***************************************************************************)
(* The downscale-cache-and-comparison pipeline of frqt.js: argument        *)
(* validation, discovery (initImages), cache population (cacheImages),     *)
(* all-pairs comparison (runAllComparisons / compare), aggregation         *)
(* (createChart) and the try/finally clean-up (clearCache).                *)
(*                                                                         *)
(* JavaScript runs every callback to completion, so one action is one      *)
(* callback: the completion of an awaited I/O operation together with      *)
(* everything the awaiting code does synchronously up to its next await.   *)
(***************************************************************************)
EXTENDS Integers, Sequences, FiniteSets, TLC

\* ------------------------------------------------------------ bounds
MaxDirs == 2      \* immediate subdirectories of the test-data root
MaxImages == 2    \* source images found by discovery
MaxSizes == 2     \* elements of the sizes array
MaxTasks == 2     \* images x sizes of a whole-pipeline run
MaxBytes == 2     \* distinct Codec outputs
MaxScore == 1     \* oracle scores are 0..MaxScore (in units of 1/MaxScore)
MaxEntries == 3   \* cache entries of a comparison run
MaxResults == 4   \* results handed to the aggregation step
MaxWidth == 12    \* widths of the file-name round trip

\* ------------------------------------------------- JavaScript values
\* A JSON value that can be an element of the sizes array.
Num(v) == [k |-> "num", n |-> v, s |-> <<>>]
Str(chars) == [k |-> "str", n |-> 0, s |-> chars]
Null == [k |-> "null", n |-> 0, s |-> <<>>]

\* A JavaScript number as parseInt returns it: an integer or NaN.
JsInt(v) == [nan |-> FALSE, v |-> v]
NaN == [nan |-> TRUE, v |-> 0]

Digits == <<"0", "1", "2", "3", "4", "5", "6", "7", "8", "9">>
HexChars ==
  <<"0", "1", "2", "3", "4", "5", "6", "7", "8", "9", "a", "b", "c", "d", "e", "f">>
IsDigit(c) == \E i \in 1..10 : Digits[i] = c
DigitValue(c) == (CHOOSE i \in 1..10 : Digits[i] = c) - 1

\* A faulty conversion, to tell apart: only the last digit is written.
NatToStringLastDigit(n) == <<Digits[(n % 10) + 1]>>

\* The decimal digits of a natural number.
RECURSIVE NatToString(_)
NatToString(n) ==
  IF n < 10 THEN <<Digits[n + 1]>>
  ELSE NatToString(n \div 10) \o <<Digits[(n % 10) + 1]>>

\* `${size}`: the template literal's conversion of a sizes element to a string.
SizeToString(e) ==
  CASE e.k = "num" -> IF e.n < 0 THEN <<"-">> \o NatToString(-e.n) ELSE NatToString(e.n)
    [] e.k = "str" -> e.s
    [] OTHER -> <<"n", "u", "l", "l">>

\* isNaN(e): Number(e) is NaN.  A number never is (JSON has no NaN literal),
\* null converts to 0, a string converts to the number it spells ("" to 0).
IsNaN(e) == e.k = "str" /\ \E i \in 1..Len(e.s) : ~IsDigit(e.s[i])

\* str.split("-")[0]: the characters before the first "-".
RECURSIVE SplitFirst(_)
SplitFirst(str) ==
  IF str = <<>> \/ Head(str) = "-" THEN <<>>
  ELSE <<Head(str)>> \o SplitFirst(Tail(str))

RECURSIVE LeadingDigits(_)
LeadingDigits(str) ==
  IF str = <<>> \/ ~IsDigit(Head(str)) THEN <<>>
  ELSE <<Head(str)>> \o LeadingDigits(Tail(str))

RECURSIVE DigitsValue(_)
DigitsValue(ds) ==
  IF ds = <<>> THEN 0
  ELSE 10 * DigitsValue(SubSeq(ds, 1, Len(ds) - 1)) + DigitValue(ds[Len(ds)])

\* parseInt(str, 10): an optional sign, then the longest run of decimal
\* digits; NaN when there is no digit.
ParseInt(str) ==
  LET signed == str # <<>> /\ Head(str) \in {"-", "+"}
      body == IF signed THEN Tail(str) ELSE str
      ds == LeadingDigits(body)
  IN  IF ds = <<>> THEN NaN
      ELSE IF signed /\ Head(str) = "-" THEN JsInt(-DigitsValue(ds))
      ELSE JsInt(DigitsValue(ds))

\* sha256(...).digest("hex"), cut down to one hex character; injective on
\* the Codec outputs 0..15 of the model, as SHA-256 is taken to be on buffers.
HexDigest(b) == <<HexChars[((7 * b + 3) % 16) + 1]>>

\* Faulty namings, to tell apart: one leaves the size out of the name, one
\* hashes nothing instead of the downscaled bytes, one names by the size alone.
FileNameOfSizeOnly(size, buf) == SizeToString(size) \o <<".jpg">>
FileNameWithoutSize(size, buf) == <<"-">> \o HexDigest(buf) \o <<".jpg">>
FileNameOfEmptyHash(size, buf) ==
  SizeToString(size) \o <<"-">> \o HexDigest(0) \o <<".jpg">>

\* `${size}-${imgName}.jpg`; strings are sequences of characters, the fixed
\* extension one element.
FileName(size, buf) ==
  SizeToString(size) \o <<"-">> \o HexDigest(buf) \o <<".jpg">>

\* sharp(image).resize({ width }): the width must be a positive integer;
\* null counts as "no width given" and is accepted.
WidthAccepted(e) == (e.k = "num" /\ e.n > 0) \/ e.k = "null"

\* ------------------------------------------------------- comparison
\* images.indexOf(img): the first index holding img, 0 for JavaScript's -1.
IndexOf(images, img) ==
  IF \E i \in 1..Len(images) : images[i] = img
  THEN CHOOSE i \in 1..Len(images) :
         images[i] = img /\ \A j \in 1..(i - 1) : images[j] # img
  ELSE 0

\* images.toSpliced(index, 1)
ToSpliced(images, index) ==
  SubSeq(images, 1, index - 1) \o SubSeq(images, index + 1, Len(images))

\* Faulty lists of others, to tell apart: the subject left in, and only the
\* entries after the subject.
OthersWithSubject(img, images) == images
OthersAfterSubject(img, images) ==
  SubSeq(images, IndexOf(images, img) + 1, Len(images))

\* The list compare maps over: images without the first occurrence of img.
Others(img, images) ==
  LET index == IndexOf(images, img)
  IN  IF index # 0 THEN ToSpliced(images, index) ELSE images

\* parseInt(otherImage.split("-")[0], 10)
ResultSize(otherImage) == ParseInt(SplitFirst(otherImage))

\* results.flat(): the concatenation of the per-subject result arrays.
RECURSIVE Flat(_)
Flat(arrays) == IF arrays = <<>> THEN <<>> ELSE Head(arrays) \o Flat(Tail(arrays))

\* ------------------------------------------------------ aggregation
\* A Map is the sequence of its entries [key, vals] in insertion order.
MapHas(m, key) == \E i \in 1..Len(m) : m[i].key = key
\* A faulty get, to tell apart: nothing is ever found.
MapGetForgets(m, key) == <<>>

\* orderedResults.get(size) || []
MapGet(m, key) ==
  IF MapHas(m, key) THEN m[CHOOSE i \in 1..Len(m) : m[i].key = key].vals ELSE <<>>
\* Faulty sets, to tell apart: one moves the key it sets to the end, one
\* appends an entry at every call.
MapSetMovesToEnd(m, key, vals) ==
  Append(SelectSeq(m, LAMBDA e : e.key # key), [key |-> key, vals |-> vals])
MapSetAppends(m, key, vals) == Append(m, [key |-> key, vals |-> vals])

\* Map.prototype.set: an existing key keeps its place, a new key is appended.
MapSet(m, key, vals) ==
  IF MapHas(m, key)
  THEN [i \in 1..Len(m) |-> IF m[i].key = key THEN [key |-> key, vals |-> vals] ELSE m[i]]
  ELSE Append(m, [key |-> key, vals |-> vals])

\* results.forEach(({size, score}) =>
\*   orderedResults.set(size, [...(orderedResults.get(size) || []), score]))
RECURSIVE OrderedResults(_)
OrderedResults(results) ==
  IF results = <<>> THEN <<>>
  ELSE LET m == OrderedResults(SubSeq(results, 1, Len(results) - 1))
           r == results[Len(results)]
       IN  MapSet(m, r.size, Append(MapGet(m, r.size), r.score))

RECURSIVE Sum(_)
Sum(vals) == IF vals = <<>> THEN 0 ELSE Head(vals) + Sum(Tail(vals))

\* A faulty mean, to tell apart: the divisor is one short.
MeanOverAllButLast(vals) == [sum |-> Sum(vals), n |-> Len(vals) - 1]

\* vals.reduce((c, n) => c + n, 0) / vals.length, kept as the fraction sum / n.
Mean(vals) == [sum |-> Sum(vals), n |-> Len(vals)]

\* The chart configuration createChart builds: labels and data.
CreateChart(results) ==
  LET m == OrderedResults(results)
  IN  [labels |-> [i \in 1..Len(m) |-> m[i].key],
       data |-> [i \in 1..Len(m) |-> Mean(m[i].vals)]]

\* ------------------------------------------------------------ state
VARIABLES
  argc,        \* number of command-line arguments after the script name
  sizesArg,    \* process.argv[3] as JSON.parse sees it
  pathOk,      \* outcome of fs.access(testdataPath), once known
  pc,          \* where the main module is
  exitCode,    \* -1 while the process runs, then its exit code
  failedAt,    \* the stage whose failure reached main's try block, or "none"
  clearThrew,  \* whether the clearCache of the finally block threw
  clearLog,    \* the settled clearCache calls: root present before, outcome, root
               \* present after, children unlinked
  stages,      \* the pipeline stages started so far, in order
  sizes,       \* the validated sizes array
  dirReads,    \* initImages: the per-directory readdir calls; seq: how many of
               \* them had settled before this one did
  images,      \* initImages' result
  rootExists,  \* whether the cache root directory exists
  files,       \* the cache root's files: name -> content (-1: opened, nothing written)
  rmPhase,     \* where the running fs.rm is
  rmSnap,      \* the children fs.rm read and is about to unlink
  tasks,       \* cacheImages: the (image, size) tasks; shared: the task opened its
               \* file while another task had the same file open
  codec,       \* the Codec outputs seen so far: <<image, size>> -> bytes (0: failure)
  listing,     \* runAllComparisons: the cache root's listing
  calls,       \* compare's callbacks: <<i, j>> -> size, score (-1: recognizeFace pending)
  results,     \* runAllComparisons' result
  chart,       \* what createChart emitted
  outOfOrder   \* a recognizeFace call resolved while one made before it was pending

vars ==
  <<argc, sizesArg, pathOk, pc, exitCode, failedAt, clearThrew, clearLog, stages, sizes,
    dirReads, images, rootExists, files, rmPhase, rmSnap, tasks, codec, listing,
    calls, results, chart, outOfOrder>>

args == <<argc, sizesArg, pathOk, sizes>>
discovery == <<dirReads, images>>
cache == <<rootExists, files>>
rm == <<rmPhase, rmSnap>>
population == <<tasks, codec>>
comparison == <<listing, calls, results, chart, outOfOrder>>

SizeElems == {Num(100), Num(200), Str(<<"7">>), Str(<<"x">>), Null}
Bytes == 1..MaxBytes
Scores == 0..MaxScore
EmptyMap == [x \in {} |-> 0]
NoChart == [emitted |-> FALSE, config |-> [labels |-> <<>>, data |-> <<>>]]

SeqsUpTo(S, n) == UNION {[1..m -> S] : m \in 0..n}
Perms(S) == {q \in [1..Cardinality(S) -> S] : \A i, j \in 1..Cardinality(S) : q[i] = q[j] => i = j}

\* What process.argv[3] can be: text JSON.parse rejects, a JSON value that is
\* no array, or an array.
SizesArgs ==
  {[k |-> "badjson", elems |-> <<>>], [k |-> "nonarray", elems |-> <<>>]}
  \cup {[k |-> "array", elems |-> e] : e \in SeqsUpTo(SizeElems, MaxSizes)}

\* A file of an earlier run, left in the cache root.
StaleName == FileName(Num(9), 0)
CacheStates ==
  {[exists |-> FALSE, files |-> EmptyMap], [exists |-> TRUE, files |-> EmptyMap],
   [exists |-> TRUE, files |-> (StaleName :> 0)]}

Init ==
  /\ argc \in 0..2
  /\ sizesArg \in (IF argc < 2 THEN {[k |-> "absent", elems |-> <<>>]} ELSE SizesArgs)
  /\ \E c \in CacheStates : rootExists = c.exists /\ files = c.files
  /\ pathOk = FALSE
  /\ pc = "start"
  /\ exitCode = -1
  /\ failedAt = "none"
  /\ clearThrew = FALSE
  /\ clearLog = <<>>
  /\ stages = <<>>
  /\ sizes = <<>>
  /\ dirReads = <<>>
  /\ images = <<>>
  /\ rmPhase = "idle"
  /\ rmSnap = {}
  /\ tasks = EmptyMap
  /\ codec = EmptyMap
  /\ listing = <<>>
  /\ calls = EmptyMap
  /\ results = <<>>
  /\ chart = NoChart
  /\ outOfOrder = FALSE

\* ---------------------------------------------------------- main flow
Running == exitCode = -1

\* if (!Array.isArray(sizes) || sizes.some(isNaN)) throw ..., after a
\* JSON.parse that throws on malformed text.
SizesValid(arg) ==
  /\ arg.k = "array"
  /\ ~\E i \in 1..Len(arg.elems) : IsNaN(arg.elems[i])

\* A main without the finally block, to tell apart: an error ends the run.
FailWithoutFinally(stage) ==
  /\ pc' = "done"
  /\ rmPhase' = "idle"
  /\ failedAt' = stage
  /\ stages' = stages

\* An error reaches main's try block: the finally block calls clearCache.
Fail(stage) ==
  /\ pc' = "finalClear"
  /\ rmPhase' = "begin"
  /\ failedAt' = stage
  /\ stages' = Append(stages, "cleanup")

\* A cacheImages that does not clear the root first, to tell apart.
StartCacheImagesWithoutClear ==
  /\ pc' = "mkdir"
  /\ rmPhase' = "idle"
  /\ failedAt' = failedAt
  /\ stages' = Append(stages, "population")

\* cacheImages begins: await clearCache(cachePath).
StartCacheImages ==
  /\ pc' = "clear0"
  /\ rmPhase' = "begin"
  /\ failedAt' = failedAt
  /\ stages' = Append(stages, "population")

\* process.argv.length < 4: report and exit(1); otherwise await fs.access.
CheckArgs ==
  /\ pc = "start"
  /\ IF argc < 2
     THEN pc' = "done" /\ exitCode' = 1
     ELSE pc' = "access" /\ exitCode' = exitCode
  /\ UNCHANGED <<argc, sizesArg, pathOk, sizes, failedAt, clearThrew, clearLog, stages>>
  /\ UNCHANGED <<discovery, cache, rm, population, comparison>>

\* fs.access settles; JSON.parse and the array check follow; a valid command
\* line goes on to initImages, which awaits fs.readdir(basePath).
AccessDone ==
  /\ pc = "access"
  /\ \E ok \in BOOLEAN :
       /\ pathOk' = ok
       /\ IF ok /\ SizesValid(sizesArg)
          THEN /\ sizes' = sizesArg.elems
               /\ pc' = "readRoot"
               /\ stages' = Append(stages, "discovery")
               /\ exitCode' = exitCode
          ELSE /\ sizes' = sizes
               /\ pc' = "done"
               /\ stages' = stages
               /\ exitCode' = 1
  /\ UNCHANGED <<argc, sizesArg, failedAt, clearThrew, clearLog>>
  /\ UNCHANGED <<discovery, cache, rm, population, comparison>>

\* ----------------------------------------------------------- discovery
\* The files found so far, as path.join(dirPath, img): <<directory, file>>.
FilesOf(dir, n) == [f \in 1..n |-> <<dir, f>>]
\* A faulty flattening, to tell apart: the lists in the order the reads settled.
FoundInCompletionOrder(reads) ==
  LET rank(i) == Cardinality({j \in 1..Len(reads) :
                    reads[j].seq < reads[i].seq \/ (reads[j].seq = reads[i].seq /\ j < i)}) + 1
  IN  Flat([r \in 1..Len(reads) |-> reads[CHOOSE i \in 1..Len(reads) : rank(i) = r].files])

Found(reads) == Flat([i \in 1..Len(reads) |-> reads[i].files])
AllRead(reads) == \A i \in 1..Len(reads) : reads[i].st = "done"

\* fs.readdir(basePath) settles: an error, or the directories, each of which
\* is read at once.
ReadRootDone ==
  /\ pc = "readRoot"
  /\ \/ /\ Fail("discovery")
        /\ UNCHANGED <<dirReads, images>>
     \/ \E d \in 0..MaxDirs :
          /\ dirReads' = [i \in 1..d |-> [st |-> "pending", files |-> <<>>, seq |-> 0]]
          /\ IF d = 0
             THEN images' = <<>> /\ StartCacheImages
             ELSE /\ images' = images
                  /\ pc' = "readDirs"
                  /\ UNCHANGED <<rmPhase, failedAt, stages>>
  /\ UNCHANGED <<args, exitCode, clearThrew, clearLog, cache, rmSnap, population, comparison>>

\* fs.readdir(dirPath) of one directory settles.  The first failure rejects
\* initImages; the last success resolves it, with the flattened lists.
ReadDirDone(i) ==
  /\ Running
  /\ i \in 1..Len(dirReads)
  /\ dirReads[i].st = "pending"
  /\ \E ok \in BOOLEAN, n \in 0..MaxImages :
       /\ ok => /\ Len(Found(dirReads)) + n <= MaxImages
                /\ (Len(Found(dirReads)) + n) * Len(sizes) <= MaxTasks
       /\ ~ok => n = 0
       /\ dirReads' = [dirReads EXCEPT ![i] =
            [st |-> IF ok THEN "done" ELSE "failed", files |-> FilesOf(i, n),
             seq |-> Cardinality({j \in 1..Len(dirReads) : dirReads[j].st # "pending"})]]
       /\ IF pc # "readDirs"
          THEN UNCHANGED <<pc, images, rmPhase, failedAt, stages>>
          ELSE IF ~ok
          THEN Fail("discovery") /\ images' = images
          ELSE IF AllRead(dirReads')
          THEN images' = Found(dirReads') /\ StartCacheImages
          ELSE UNCHANGED <<pc, images, rmPhase, failedAt, stages>>
  /\ UNCHANGED <<args, exitCode, clearThrew, clearLog, cache, rmSnap, population, comparison>>

\* ---------------------------------------------------------- clearCache
\* clearCache settles: the one cacheImages awaits is followed by fs.mkdir (or
\* rejects cacheImages), the one in the finally block ends the program.
ClearSettled(present, ok) ==
  /\ clearLog' = Append(clearLog, [present |-> present, ok |-> ok, after |-> rootExists',
                                   unlinked |-> rmPhase = "rmdir"])
  /\ IF pc = "clear0"
     THEN /\ IF ok
             THEN /\ pc' = "mkdir"
                  /\ rmPhase' = "idle"
                  /\ UNCHANGED <<failedAt, stages>>
             ELSE Fail("population")
          /\ UNCHANGED <<exitCode, clearThrew>>
     ELSE /\ pc' = "done"
          /\ rmPhase' = "idle"
          /\ clearThrew' = ~ok
          /\ exitCode' = IF ok /\ failedAt = "none" THEN 0 ELSE 1
          /\ UNCHANGED <<failedAt, stages>>

\* An fs.rm without force, to tell apart: an absent path is an error.
RmAbsentThrows == ClearSettled(FALSE, FALSE)

\* fs.rm with force: true on a path that does not exist: no error.
RmAbsent == ClearSettled(FALSE, TRUE)

\* fs.rm(cachePath, {recursive: true, force: true}) looks at the path: an
\* absent path is no error (force), an empty directory is removed at once, a
\* directory with children has them read, to be unlinked; any other I/O
\* error rejects.
RmBegin ==
  /\ pc \in {"clear0", "finalClear"}
  /\ rmPhase = "begin"
  /\ \/ /\ ~rootExists
        /\ UNCHANGED <<cache, rmSnap>>
        /\ RmAbsent
     \/ /\ rootExists
        /\ UNCHANGED <<cache, rmSnap>>
        /\ ClearSettled(TRUE, FALSE)
     \/ /\ rootExists
        /\ DOMAIN files = {}
        /\ rootExists' = FALSE
        /\ UNCHANGED <<files, rmSnap>>
        /\ ClearSettled(TRUE, TRUE)
     \/ /\ rootExists
        /\ DOMAIN files # {}
        /\ rmSnap' = DOMAIN files
        /\ rmPhase' = "unlink"
        /\ UNCHANGED <<pc, exitCode, failedAt, clearThrew, clearLog, stages, cache>>
  /\ UNCHANGED <<args, discovery, population, comparison>>

\* fs.rm unlinks the children it read.
RmUnlink ==
  /\ pc \in {"clear0", "finalClear"}
  /\ rmPhase = "unlink"
  /\ files' = [f \in DOMAIN files \ rmSnap |-> files[f]]
  /\ rmPhase' = "rmdir"
  /\ rmSnap' = {}
  /\ UNCHANGED <<pc, exitCode, failedAt, clearThrew, clearLog, stages, rootExists>>
  /\ UNCHANGED <<args, discovery, population, comparison>>

\* fs.rm removes the directory itself; a file created since the children
\* were read makes that fail (ENOTEMPTY).
RmFinish ==
  /\ pc \in {"clear0", "finalClear"}
  /\ rmPhase = "rmdir"
  /\ IF DOMAIN files = {}
     THEN rootExists' = FALSE /\ ClearSettled(TRUE, TRUE)
     ELSE rootExists' = rootExists /\ ClearSettled(TRUE, FALSE)
  /\ UNCHANGED <<files, rmSnap>>
  /\ UNCHANGED <<args, discovery, population, comparison>>

\* ---------------------------------------------------------- population
TaskIds == (1..Len(images)) \X (1..Len(sizes))
AnyFailed(ts) == \E t \in DOMAIN ts : ts[t].st = "failed"
AllDone(ts) == \A t \in DOMAIN ts : ts[t].st = "done"

\* A join that waits for every task and ignores failures, to tell apart.
JoinPopulateAllSettled(ts) ==
  IF pc = "populate" /\ \A t \in DOMAIN ts : ts[t].st \in {"done", "failed"}
  THEN /\ pc' = "readCache"
       /\ stages' = Append(stages, "comparison")
       /\ UNCHANGED <<rmPhase, failedAt>>
  ELSE UNCHANGED <<pc, rmPhase, failedAt, stages>>

\* A join that resolves with the first task to succeed, to tell apart.
JoinPopulateAny(ts) ==
  IF pc = "populate" /\ \E t \in DOMAIN ts : ts[t].st = "done"
  THEN /\ pc' = "readCache"
       /\ stages' = Append(stages, "comparison")
       /\ UNCHANGED <<rmPhase, failedAt>>
  ELSE UNCHANGED <<pc, rmPhase, failedAt, stages>>

\* The Promise.all of cacheImages: the first task to fail rejects it, the last
\* to succeed resolves it, and runAllComparisons awaits fs.readdir(cachePath).
JoinPopulate(ts) ==
  IF pc # "populate" THEN UNCHANGED <<pc, rmPhase, failedAt, stages>>
  ELSE IF AnyFailed(ts) THEN Fail("population")
  ELSE IF AllDone(ts)
  THEN /\ pc' = "readCache"
       /\ stages' = Append(stages, "comparison")
       /\ UNCHANGED <<rmPhase, failedAt>>
  ELSE UNCHANGED <<pc, rmPhase, failedAt, stages>>

\* fs.mkdir(cachePath, {recursive: true}) settles; every (image, size) task
\* starts and awaits downscaleImage.
MkdirDone ==
  /\ pc = "mkdir"
  /\ \/ /\ Fail("population")
        /\ UNCHANGED <<cache, tasks>>
     \/ /\ rootExists' = TRUE
        /\ files' = files
        /\ tasks' = [t \in TaskIds |-> [st |-> "downscaling", buf |-> 0, name |-> <<>>, shared |-> FALSE]]
        /\ IF TaskIds = {}
           THEN /\ pc' = "readCache"
                /\ stages' = Append(stages, "comparison")
                /\ UNCHANGED <<rmPhase, failedAt>>
           ELSE /\ pc' = "populate"
                /\ UNCHANGED <<rmPhase, failedAt, stages>>
  /\ UNCHANGED <<args, exitCode, clearThrew, clearLog, discovery, rmSnap, codec, comparison>>

\* downscaleImage settles: the Codec's bytes or its error, the same for the
\* same image and size.  The bytes are hashed and fs.writeFile is awaited.
CodecOutcomes(img, size) ==
  IF <<img, size>> \in DOMAIN codec THEN {codec[<<img, size>>]}
  ELSE IF WidthAccepted(size) THEN 0..MaxBytes
  ELSE {0}

TaskDownscaleDone(t) ==
  /\ Running
  /\ t \in DOMAIN tasks
  /\ tasks[t].st = "downscaling"
  /\ LET img == images[t[1]]
         size == sizes[t[2]]
     IN  \E b \in CodecOutcomes(img, size) :
           /\ codec' = (<<img, size>> :> b) @@ codec
           /\ tasks' = [tasks EXCEPT ![t] =
                IF b = 0 THEN [st |-> "failed", buf |-> 0, name |-> <<>>, shared |-> FALSE]
                ELSE [st |-> "opening", buf |-> b, name |-> FileName(size, b),
                      shared |-> FALSE]]
  /\ JoinPopulate(tasks')
  /\ UNCHANGED <<args, exitCode, clearThrew, clearLog, discovery, cache, rmSnap, comparison>>

\* A task that starts over when its write cannot open the file, to tell apart.
TaskWriteOpenRetries(t) ==
  /\ Running
  /\ t \in DOMAIN tasks
  /\ tasks[t].st = "opening"
  /\ \E ok \in BOOLEAN :
       /\ ok => rootExists
       /\ files' = IF ok THEN (tasks[t].name :> -1) @@ files ELSE files
       /\ tasks' = [tasks EXCEPT ![t].st = IF ok THEN "writing" ELSE "downscaling"]
  /\ JoinPopulate(tasks')
  /\ UNCHANGED <<args, exitCode, clearThrew, clearLog, discovery, rootExists, rmSnap,
                 codec, comparison>>

\* fs.writeFile opens the file, creating or truncating it; that fails when
\* the directory is gone, or for any other I/O error.
TaskWriteOpen(t) ==
  /\ Running
  /\ t \in DOMAIN tasks
  /\ tasks[t].st = "opening"
  /\ \E ok \in BOOLEAN :
       /\ ok => rootExists
       /\ files' = IF ok THEN (tasks[t].name :> -1) @@ files ELSE files
       /\ tasks' = [tasks EXCEPT
            ![t].st = IF ok THEN "writing" ELSE "failed",
            ![t].shared = ok /\ \E u \in DOMAIN tasks \ {t} :
                                  tasks[u].st = "writing" /\ tasks[u].name = tasks[t].name]
  /\ JoinPopulate(tasks')
  /\ UNCHANGED <<args, exitCode, clearThrew, clearLog, discovery, rootExists, rmSnap,
                 codec, comparison>>

\* fs.writeFile writes the buffer and closes the file; a file unlinked in the
\* meantime is written without a name.
TaskWriteDone(t) ==
  /\ Running
  /\ t \in DOMAIN tasks
  /\ tasks[t].st = "writing"
  /\ files' = IF tasks[t].name \in DOMAIN files
              THEN [files EXCEPT ![tasks[t].name] = tasks[t].buf]
              ELSE files
  /\ tasks' = [tasks EXCEPT ![t].st = "done"]
  /\ JoinPopulate(tasks')
  /\ UNCHANGED <<args, exitCode, clearThrew, clearLog, discovery, rootExists, rmSnap,
                 codec, comparison>>

\* ---------------------------------------------------------- comparison
\* The recognizeFace calls compare starts: <<i, j>> is recognizeFace(img,
\* otherImage) for subject img = names[i] and otherImage the j-th of the
\* other entries.
Face1(names, c) == names[c[1]]
Face2(names, c) == Others(names[c[1]], names)[c[2]]

CallIds(names) ==
  {<<i, j>> : i \in 1..Len(names), j \in 1..Len(names)} \cap
  UNION {{<<i, j>> : j \in 1..Len(Others(names[i], names))} : i \in 1..Len(names)}

\* Callbacks that parse the subject's name instead, to tell apart.
StartCallsSubjectSize(names) ==
  [c \in CallIds(names) |-> [size |-> ResultSize(Face1(names, c)), score |-> -1]]

\* A callback of compare parses the size, then awaits recognizeFace.
StartCalls(names) ==
  [c \in CallIds(names) |-> [size |-> ResultSize(Face2(names, c)), score |-> -1]]

\* What runAllComparisons resolves to once every callback has returned its
\* {size, score}: per subject, per other entry.
ResultsOf(names, cs) ==
  [i \in 1..Len(names) |->
    [j \in 1..Cardinality({c \in DOMAIN cs : c[1] = i}) |-> cs[<<i, j>>]]]

\* createChart(results.flat()) prints the chart URL; the finally block follows.
ChartAndFinally(res) ==
  /\ results' = res
  /\ chart' = [emitted |-> TRUE, config |-> CreateChart(Flat(results'))]
  /\ pc' = "finalClear"
  /\ rmPhase' = "begin"
  /\ failedAt' = failedAt
  /\ stages' = stages \o <<"chart", "cleanup">>

\* fs.readdir(cachePath) settles: an error, or the names in the order the
\* file system gives them; compare is started for every name against the rest.
ReadCacheDone ==
  /\ pc = "readCache"
  /\ \/ /\ Fail("comparison")
        /\ UNCHANGED <<listing, calls, results, chart, outOfOrder>>
     \/ /\ rootExists
        /\ outOfOrder' = outOfOrder
        /\ \E names \in Perms(DOMAIN files) :
             /\ listing' = names
             /\ calls' = StartCalls(names)
             /\ IF CallIds(names) = {}
                THEN ChartAndFinally(ResultsOf(names, calls'))
                ELSE /\ pc' = "comparing"
                     /\ UNCHANGED <<rmPhase, failedAt, stages, results, chart>>
  /\ UNCHANGED <<args, exitCode, clearThrew, clearLog, discovery, cache, rmSnap, population>>

\* The order the calls are made in: subject by subject, other by other.
Earlier(c, d) == c[1] < d[1] \/ (c[1] = d[1] /\ c[2] < d[2])

\* One recognizeFace timer fires and resolves its call with Math.random();
\* the last one resolves runAllComparisons.
OracleResolve(c) ==
  /\ pc = "comparing"
  /\ c \in DOMAIN calls
  /\ calls[c].score = -1
  /\ outOfOrder' = (outOfOrder \/ \E d \in DOMAIN calls : Earlier(d, c) /\ calls[d].score = -1)
  /\ \E score \in Scores :
       /\ calls' = [calls EXCEPT ![c].score = score]
       /\ IF \A d \in DOMAIN calls : calls'[d].score # -1
          THEN ChartAndFinally(ResultsOf(listing, calls'))
          ELSE UNCHANGED <<pc, rmPhase, failedAt, stages, results, chart>>
  /\ UNCHANGED <<args, exitCode, clearThrew, clearLog, discovery, cache, rmSnap, population,
                 listing>>

\* --------------------------------------------------------------- specs
Next ==
  \/ CheckArgs
  \/ AccessDone
  \/ ReadRootDone
  \/ \E i \in 1..MaxDirs : ReadDirDone(i)
  \/ RmBegin
  \/ RmUnlink
  \/ RmFinish
  \/ MkdirDone
  \/ \E t \in DOMAIN tasks : TaskDownscaleDone(t)
  \/ \E t \in DOMAIN tasks : TaskWriteOpen(t)
  \/ \E t \in DOMAIN tasks : TaskWriteDone(t)
  \/ ReadCacheDone
  \/ \E c \in DOMAIN calls : OracleResolve(c)

\* A whole run of the program, from the command line to the exit.
Spec == Init /\ [][Next]_vars

\* The sizes elements the argument check lets through, and those of them the
\* Codec accepts as a width.
PassingElems == {e \in SizeElems : ~IsNaN(e)}
AcceptedElems == {e \in PassingElems : WidthAccepted(e)}

\* cacheImages alone: from its call, for any images and any validated sizes,
\* to its settling (and through the finally block when it rejects).
InitPopulate ==
  \E m \in 0..MaxImages, szs \in SeqsUpTo(PassingElems, MaxSizes), c \in CacheStates :
    /\ argc = 2
    /\ sizesArg = [k |-> "array", elems |-> szs]
    /\ pathOk = TRUE
    /\ pc = "clear0"
    /\ exitCode = -1
    /\ failedAt = "none"
    /\ clearThrew = FALSE
    /\ clearLog = <<>>
    /\ stages = <<"discovery", "population">>
    /\ sizes = szs
    /\ dirReads = <<[st |-> "done", files |-> FilesOf(1, m), seq |-> 0]>>
    /\ images = FilesOf(1, m)
    /\ rootExists = c.exists
    /\ files = c.files
    /\ rmPhase = "begin"
    /\ rmSnap = {}
    /\ tasks = EmptyMap
    /\ codec = EmptyMap
    /\ listing = <<>>
    /\ calls = EmptyMap
    /\ results = <<>>
    /\ chart = NoChart
    /\ outOfOrder = FALSE

NextPopulate ==
  \/ RmBegin
  \/ RmUnlink
  \/ RmFinish
  \/ MkdirDone
  \/ \E t \in DOMAIN tasks : TaskDownscaleDone(t)
  \/ \E t \in DOMAIN tasks : TaskWriteOpen(t)
  \/ \E t \in DOMAIN tasks : TaskWriteDone(t)

SpecPopulate == InitPopulate /\ [][NextPopulate]_vars

\* The state a successful cacheImages leaves for m images, the sizes szs and
\* the Codec outputs out: every task done, every file written;
\* runAllComparisons awaits its readdir.
PopulatedBy(m, szs, out) ==
      /\ \A t, u \in DOMAIN out : t[1] = u[1] /\ szs[t[2]] = szs[u[2]] => out[t] = out[u]
      /\ argc = 2
      /\ sizesArg = [k |-> "array", elems |-> szs]
      /\ pathOk = TRUE
      /\ pc = "readCache"
      /\ exitCode = -1
      /\ failedAt = "none"
      /\ clearThrew = FALSE
      /\ clearLog = <<[present |-> FALSE, ok |-> TRUE, after |-> FALSE, unlinked |-> FALSE]>>
      /\ stages = <<"discovery", "population", "comparison">>
      /\ sizes = szs
      /\ dirReads = <<[st |-> "done", files |-> FilesOf(1, m), seq |-> 0]>>
      /\ images = FilesOf(1, m)
      /\ rootExists = TRUE
      /\ files = [name \in {FileName(szs[t[2]], out[t]) : t \in DOMAIN out} |->
                   out[CHOOSE t \in DOMAIN out : FileName(szs[t[2]], out[t]) = name]]
      /\ rmPhase = "idle"
      /\ rmSnap = {}
      /\ tasks = [t \in DOMAIN out |->
                   [st |-> "done", buf |-> out[t], name |-> FileName(szs[t[2]], out[t]),
                    shared |-> FALSE]]
      /\ codec = [key \in {<<FilesOf(1, m)[t[1]], szs[t[2]]>> : t \in DOMAIN out} |->
                   out[CHOOSE t \in DOMAIN out : <<FilesOf(1, m)[t[1]], szs[t[2]]>> = key]]
      /\ listing = <<>>
      /\ calls = EmptyMap
      /\ results = <<>>
      /\ chart = NoChart
      /\ outOfOrder = FALSE

\* runAllComparisons alone, on any cache of at most MaxEntries entries that a
\* successful cacheImages leaves, the timers firing in any order.
InitCompare ==
  \E m \in 0..MaxImages, szs \in SeqsUpTo(AcceptedElems, MaxSizes) :
    \E out \in [(1..m) \X (1..Len(szs)) -> Bytes] :
      /\ Cardinality({FileName(szs[t[2]], out[t]) : t \in DOMAIN out}) <= MaxEntries
      /\ PopulatedBy(m, szs, out)

NextCompare ==
  \/ ReadCacheDone
  \/ \E c \in DOMAIN calls : OracleResolve(c)

SpecCompare == InitCompare /\ [][NextCompare]_vars

\* The timers of recognizeFace all wait 100 ms; fired in the order they were
\* set, the calls resolve subject by subject, other by other.
OracleResolveInOrder ==
  \E c \in DOMAIN calls :
    /\ \A d \in DOMAIN calls : Earlier(d, c) => calls[d].score # -1
    /\ OracleResolve(c)

\* runAllComparisons alone, the timers firing in the order they were set: on
\* the caches of InitCompare, and on the cache that 2 source images with
\* distinct renditions and the sizes [100, 200] leave (4 entries).
InitInOrder ==
  \/ InitCompare
  \/ PopulatedBy(2, <<Num(100), Num(200)>>, [t \in (1..2) \X (1..2) |-> t[1]])

NextInOrder ==
  \/ ReadCacheDone
  \/ OracleResolveInOrder

SpecInOrder == InitInOrder /\ [][NextInOrder]_vars

\* runAllComparisons alone, on the two entries that one source image and two
\* different widths up to MaxWidth leave.
InitRoundTrip ==
  \E w, v \in 1..MaxWidth :
    PopulatedBy(1, <<Num(w), Num(v)>>, [t \in {1} \X (1..2) |-> t[2]])

SpecRoundTrip == InitRoundTrip /\ [][NextCompare]_vars

\* createChart alone, on any sequence of results.
ResultValues == [size : {JsInt(100), JsInt(200), NaN}, score : Scores]

InitChart ==
  /\ argc = 2
  /\ sizesArg = [k |-> "array", elems |-> <<>>]
  /\ pathOk = TRUE
  /\ pc = "chartInput"
  /\ exitCode = -1
  /\ failedAt = "none"
  /\ clearThrew = FALSE
  /\ clearLog = <<>>
  /\ stages = <<>>
  /\ sizes = <<>>
  /\ dirReads = <<>>
  /\ images = <<>>
  /\ rootExists = FALSE
  /\ files = EmptyMap
  /\ rmPhase = "idle"
  /\ rmSnap = {}
  /\ tasks = EmptyMap
  /\ codec = EmptyMap
  /\ listing = <<>>
  /\ calls = EmptyMap
  /\ results \in {<<rs>> : rs \in SeqsUpTo(ResultValues, MaxResults)}
  /\ chart = NoChart
  /\ outOfOrder = FALSE

CallCreateChart ==
  /\ pc = "chartInput"
  /\ pc' = "chartDone"
  /\ chart' = [emitted |-> TRUE, config |-> CreateChart(Flat(results))]
  /\ UNCHANGED <<args, exitCode, failedAt, clearThrew, clearLog, stages, discovery, cache,
                 rm, population, listing, calls, results, outOfOrder>>

SpecChart == InitChart /\ [][CallCreateChart]_vars

\* -------------------------------------------------------------- claims
InFlight(t) == tasks[t].st \in {"downscaling", "opening", "writing"}
ListingRead == pc \in {"comparing", "finalClear", "done"} /\ failedAt # "comparison"
Range(q) == {q[i] : i \in 1..Len(q)}

\* C1: once a run that got past argument validation has ended and the
\* clearCache of the finally block did not throw, the cache root does not
\* exist, whatever stage failed and however the tasks interleaved.
CleanupOnEveryExit ==
  (pc = "done" /\ stages # <<>> /\ ~clearThrew) => ~rootExists

\* C1 witness: a run ended clean although a populate task failed while a
\* sibling task was still in flight.
CleanupWithTaskInFlight ==
  /\ pc = "done"
  /\ failedAt = "population"
  /\ ~clearThrew
  /\ ~rootExists
  /\ \E t, u \in DOMAIN tasks : tasks[t].st = "failed" /\ InFlight(u)

\* C2: for a listing of n entries, n * (n - 1) recognizeFace calls are made
\* and as many results yielded: one call for every ordered pair of distinct
\* entries, none of an entry with itself.
PairCount ==
  ListingRead =>
    LET n == Len(listing)
    IN  /\ Cardinality(DOMAIN calls) = n * (n - 1)
        /\ \A a, b \in 1..n : a # b =>
             Cardinality({c \in DOMAIN calls :
               Face1(listing, c) = listing[a] /\ Face2(listing, c) = listing[b]}) = 1
        /\ \A c \in DOMAIN calls : Face1(listing, c) # Face2(listing, c)
        /\ chart.emitted => Len(Flat(results)) = n * (n - 1)

\* C2 witness: three entries were compared, six results yielded.
PairCountOfThree ==
  chart.emitted /\ Len(listing) = 3 /\ Len(Flat(results)) = 6

\* The distinct widths asked for, the (size, digest) pairs the tasks produced,
\* and: no two images have the same rendition at the same width.
Widths == Range(sizes)
Produced == {<<sizes[t[2]], HexDigest(tasks[t].buf)>> : t \in DOMAIN tasks}
NoSameRendition ==
  \A i, j \in 1..Len(images), w \in Widths :
    i # j => codec[<<images[i], w>>] # codec[<<images[j], w>>]

\* C3: after a successful cacheImages the cache root holds as many entries as
\* distinct (size, digest) pairs were produced: at most m * k for m images
\* and k distinct widths, and exactly m * k when no two images have the same
\* rendition at the same width.
EntryCount ==
  pc = "readCache" =>
    /\ Cardinality(DOMAIN files) = Cardinality(Produced)
    /\ Cardinality(DOMAIN files) <= Len(images) * Cardinality(Widths)
    /\ NoSameRendition => Cardinality(DOMAIN files) = Len(images) * Cardinality(Widths)

\* C3 witness: 2 images and 2 widths left 3 entries in a cache root that
\* held a stale file before.
EntryCountWithCollision ==
  /\ pc = "readCache"
  /\ Len(images) = 2
  /\ Cardinality(Widths) = 2
  /\ Cardinality(DOMAIN files) = 3
  /\ clearLog[1].present

\* The part of an entry's name between the first "-" and the extension.
HashPart(name) == SubSeq(name, Len(SplitFirst(name)) + 2, Len(name) - 1)

\* C4: after a successful cacheImages every file of the cache root holds the
\* Codec's output for some (image, size) of the run, its name's hash is the
\* digest of what it holds and its name's prefix is that size.
EntriesAreCodecOutput ==
  pc = "readCache" =>
    \A name \in DOMAIN files :
      /\ files[name] \in Bytes
      /\ HashPart(name) = HexDigest(files[name])
      /\ \E t \in DOMAIN tasks :
           /\ files[name] = codec[<<images[t[1]], sizes[t[2]]>>]
           /\ SplitFirst(name) = SizeToString(sizes[t[2]])

\* C4 witness: cacheImages succeeded with two tasks having had the same file
\* open at once.
SameFileWrittenConcurrently ==
  /\ pc = "readCache"
  /\ \E t, u \in DOMAIN tasks :
       t # u /\ tasks[t].name = tasks[u].name /\ tasks[t].shared

\* C5: the labels createChart emits are pairwise distinct, and they are
\* exactly the sizes of the results it was given.
LabelsAreInputSizes ==
  chart.emitted =>
    LET labels == chart.config.labels
    IN  /\ \A i, j \in 1..Len(labels) : labels[i] = labels[j] => i = j
        /\ Range(labels) = {r.size : r \in Range(Flat(results))}

\* C5 witness: four results of two sizes, one of them NaN, gave two labels.
LabelsOfRepeatedSizes ==
  /\ chart.emitted
  /\ Len(Flat(results)) = 4
  /\ Len(chart.config.labels) = 2
  /\ NaN \in Range(chart.config.labels)

\* The sizes of the listed entries, the entries of one size, the results
\* carrying one size, and the chart's bucket of a size.
EntrySizes == {ResultSize(listing[i]) : i \in 1..Len(listing)}
EntriesOfSize(s) == {i \in 1..Len(listing) : ResultSize(listing[i]) = s}
EvenlySplit ==
  \A s, r \in EntrySizes : Cardinality(EntriesOfSize(s)) = Cardinality(EntriesOfSize(r))
ResultsOfSize(s) ==
  {c \in DOMAIN calls : results[c[1]][c[2]].size = s}
BucketOf(s) ==
  chart.config.data[CHOOSE i \in 1..Len(chart.config.labels) : chart.config.labels[i] = s]

\* C6 (as claimed): with the n entries evenly split over k sizes, each size is
\* the other entry's size in n * (n/k - 1) results, and its bucket is a mean
\* over as many scores (4 in the scenario of 2 images and sizes [100, 200]).
OtherSizeCountAsClaimed ==
  (chart.emitted /\ EvenlySplit) =>
    LET n == Len(listing)
        k == Cardinality(EntrySizes)
    IN  \A s \in EntrySizes :
          /\ Cardinality(ResultsOfSize(s)) = n * ((n \div k) - 1)
          /\ s \in Range(chart.config.labels) => BucketOf(s).n = n * ((n \div k) - 1)

\* C6 (amended): with the n entries evenly split over k sizes, each size is
\* the other entry's size in (n/k) * (n - 1) results, and its bucket is a mean
\* over as many scores (6 in the scenario of 2 images and sizes [100, 200]).
OtherSizeCount ==
  (chart.emitted /\ EvenlySplit) =>
    LET n == Len(listing)
        k == Cardinality(EntrySizes)
    IN  \A s \in EntrySizes :
          /\ Cardinality(ResultsOfSize(s)) = (n \div k) * (n - 1)
          /\ s \in Range(chart.config.labels) => BucketOf(s).n = (n \div k) * (n - 1)

\* C6 witness: the scenario: 4 entries, 12 results, the buckets of sizes 100
\* and 200, each over 6 scores.
ScenarioBucketsOfSix ==
  /\ chart.emitted
  /\ Len(images) = 2
  /\ sizes = <<Num(100), Num(200)>>
  /\ Len(listing) = 4
  /\ Len(Flat(results)) = 12
  /\ Range(chart.config.labels) = {JsInt(100), JsInt(200)}
  /\ \A i \in 1..Len(chart.config.data) : chart.config.data[i].n = 6

\* The j-th of the listing's entries other than the i-th.
OtherAt(i, j) == IF j < i THEN listing[j] ELSE listing[j + 1]

\* C7: the result of subject s and other entry o carries the size parsed
\* from o's name and the score recognizeFace(s, o) resolved with.
ResultFromOther ==
  ListingRead =>
    \A c \in DOMAIN calls :
      /\ Face1(listing, c) = listing[c[1]]
      /\ Face2(listing, c) = OtherAt(c[1], c[2])
      /\ calls[c].size = ParseInt(SplitFirst(OtherAt(c[1], c[2])))
      /\ chart.emitted =>
           results[c[1]][c[2]] =
             [size |-> ParseInt(SplitFirst(OtherAt(c[1], c[2]))), score |-> calls[c].score]

\* C7 witness: a result of a subject and an other entry of different sizes,
\* with the other's size and the call's score, which another call did not get.
ResultOfOtherSize ==
  /\ chart.emitted
  /\ \E c, d \in DOMAIN calls :
       /\ ResultSize(Face1(listing, c)) # ResultSize(Face2(listing, c))
       /\ results[c[1]][c[2]].size = ResultSize(Face2(listing, c))
       /\ results[c[1]][c[2]].score = 1
       /\ results[d[1]][d[2]].score = 0

\* The stages started when the given stage fails.
StagesUpTo(stage) ==
  CASE stage = "discovery" -> <<"discovery">>
    [] stage = "population" -> <<"discovery", "population">>
    [] OTHER -> <<"discovery", "population", "comparison">>

\* C8: a failure in discovery, population or comparison reaches main: no
\* later stage is started (only the finally block runs), no chart is
\* emitted, and the process ends with a non-zero exit code.
FailFast ==
  /\ (AnyFailed(tasks) \/ \E i \in 1..Len(dirReads) : dirReads[i].st = "failed")
       => failedAt # "none"
  /\ failedAt # "none" =>
       /\ ~chart.emitted
       /\ stages = StagesUpTo(failedAt) \o <<"cleanup">>
       /\ pc = "done" => exitCode = 1
  /\ failedAt = "discovery" => tasks = EmptyMap
  /\ failedAt \in {"discovery", "population"} => listing = <<>> /\ calls = EmptyMap

\* C8 witness: a run that ended after a populate task failed, without chart.
PopulationFailureEndedRun ==
  /\ pc = "done"
  /\ failedAt = "population"
  /\ AnyFailed(tasks)
  /\ exitCode = 1
  /\ ~chart.emitted

\* C9: a clearCache on an absent cache root does not fail and leaves it
\* absent, and every clearCache that returns leaves it absent, so a second
\* one in a row changes nothing.
ClearIdempotent ==
  \A i \in 1..Len(clearLog) :
    /\ ~clearLog[i].present => clearLog[i].ok
    /\ clearLog[i].ok => ~clearLog[i].after

\* C9 witness: the clearCache of cacheImages removed the root, fs.mkdir
\* failed, and the clearCache of the finally block found the root absent.
ClearedTwiceInARow ==
  /\ Len(clearLog) = 2
  /\ clearLog[1].present /\ clearLog[1].ok
  /\ ~clearLog[2].present /\ clearLog[2].ok
  /\ tasks = EmptyMap
  /\ ~rootExists

\* The sizes argument is not a JSON array of numbers.
NotNumbers ==
  sizesArg.k # "array" \/ \E i \in 1..Len(sizesArg.elems) : sizesArg.elems[i].k # "num"

\* C10: with arguments missing, the source path inaccessible or a sizes
\* argument that is not a JSON array of numbers, the process exits with
\* code 1 and no stage of the pipeline starts.
BadArgumentsNeverStart ==
  (argc < 2 \/ NotNumbers \/ (pc \notin {"start", "access"} /\ ~pathOk)) =>
    /\ stages = <<>>
    /\ clearLog = <<>>
    /\ tasks = EmptyMap
    /\ pc = "done" => exitCode = 1

\* C11: with every score in [0, 1] (0..MaxScore in units of 1 / MaxScore),
\* every mean createChart emits is in [0, 1], and no bucket is empty: no
\* mean is a division by zero.
MeansInUnitInterval ==
  chart.emitted =>
    \A i \in 1..Len(chart.config.data) :
      /\ chart.config.data[i].n > 0
      /\ 0 <= chart.config.data[i].sum
      /\ chart.config.data[i].sum <= MaxScore * chart.config.data[i].n

\* C11 witness: two buckets, one of a single score with mean 1, one of three
\* scores with a mean strictly between 0 and 1.
MeansAtAndInsideTheBounds ==
  /\ chart.emitted
  /\ Len(chart.config.data) = 2
  /\ \E i, j \in 1..2 :
       /\ chart.config.data[i] = [sum |-> MaxScore, n |-> 1]
       /\ chart.config.data[j].n = 3
       /\ chart.config.data[j].sum \in 1..(3 * MaxScore - 1)

\* initImages has returned, and the number of files listed before directory i.
DiscoveryDone ==
  stages # <<>> /\ pc \notin {"readRoot", "readDirs"} /\ failedAt # "discovery"
RECURSIVE Offset(_)
Offset(i) == IF i = 1 THEN 0 ELSE Offset(i - 1) + Len(dirReads[i - 1].files)

\* C12: initImages returns the files of every directory of the root, the
\* directories in root-listing order and each directory's files in its
\* listing order, every file once and none left out, whatever order the
\* concurrent reads settled in.
FlattenedInListingOrder ==
  DiscoveryDone =>
    /\ Len(images) = Offset(Len(dirReads) + 1)
    /\ \A i \in 1..Len(dirReads) : \A f \in 1..Len(dirReads[i].files) :
         images[Offset(i) + f] = dirReads[i].files[f]
    /\ \A p, q \in 1..Len(images) : images[p] = images[q] => p = q

\* C12 witness: the read of the second directory settled before that of the
\* first; the first directory's file still comes first.
SecondDirectoryReadFirst ==
  /\ DiscoveryDone
  /\ Len(dirReads) = 2
  /\ dirReads[1].seq = 1
  /\ dirReads[2].seq = 0
  /\ Len(dirReads[1].files) = 1
  /\ Len(dirReads[2].files) = 1
  /\ images = <<dirReads[1].files[1], dirReads[2].files[1]>>

\* The comparison stage has called fs.readdir on the cache root, or is past it.
ListingAsked ==
  pc \in {"readCache", "comparing"} \/ failedAt = "comparison" \/ chart.emitted

\* C13: when the comparison stage reads the cache root, every populate task
\* has been started and has settled with its write done: none is in flight
\* and none can still start.
WritesSettledBeforeListing ==
  ListingAsked =>
    /\ DOMAIN tasks = (1..Len(images)) \X (1..Len(sizes))
    /\ \A t \in DOMAIN tasks : tasks[t].st = "done"

\* C13 witness: the listing was read with the two entries two tasks wrote.
ListingOfTwoWrittenEntries ==
  /\ pc = "comparing"
  /\ Cardinality(DOMAIN tasks) = 2
  /\ Len(listing) = 2
  /\ \A t \in DOMAIN tasks : tasks[t].st = "done" /\ tasks[t].name \in Range(listing)

\* The task has computed its file name: fs.writeFile is awaited or has settled.
Named(t) == tasks[t].st \in {"opening", "writing", "done"}

\* C14 (as claimed): no two tasks in flight at the same time write to the
\* same cache file.
WritesDisjointByName ==
  \A t, u \in DOMAIN tasks :
    (t # u /\ tasks[t].st = "writing" /\ tasks[u].st = "writing")
      => tasks[t].name # tasks[u].name

\* C14 (amended): two tasks write to the same cache file exactly when their
\* sizes read the same in the name and their downscaled bytes are the same,
\* and a file that tasks write never holds bytes other than theirs.
SameFileOnlySameBytes ==
  /\ \A t, u \in DOMAIN tasks :
       (Named(t) /\ Named(u)) =>
         (tasks[t].name = tasks[u].name <=>
            (/\ SizeToString(sizes[t[2]]) = SizeToString(sizes[u[2]])
             /\ tasks[t].buf = tasks[u].buf))
  /\ \A t \in DOMAIN tasks :
       (Named(t) /\ tasks[t].name \in DOMAIN files) =>
         files[tasks[t].name] \in {-1, tasks[t].buf}

\* C14 witness: two tasks have the same file open at once, with the same
\* bytes to write, while another file is being written.
TwoWritersOfOneFile ==
  \E t, u, v \in DOMAIN tasks :
    /\ t # u
    /\ tasks[t].st = "writing" /\ tasks[u].st = "writing" /\ tasks[v].st = "writing"
    /\ tasks[t].name = tasks[u].name
    /\ tasks[t].buf = tasks[u].buf
    /\ tasks[v].name # tasks[t].name

\* The names of the files the tasks of this run wrote.
WrittenNames == {tasks[t].name : t \in {u \in DOMAIN tasks : tasks[u].st = "done"}}

\* C15: after a successful cacheImages the cache root holds only entries
\* written by this run, whatever it held before; no entry of an earlier run
\* is listed or compared by runAllComparisons.
OnlyEntriesOfThisRun ==
  /\ pc = "readCache" =>
       /\ DOMAIN files = WrittenNames
       /\ \A t \in DOMAIN tasks : files[tasks[t].name] = tasks[t].buf
  /\ Range(listing) \subseteq WrittenNames
  /\ \A c \in DOMAIN calls :
       Face1(listing, c) \in WrittenNames /\ Face2(listing, c) \in WrittenNames

\* C15 witness: the cache root held a file of an earlier run, which the
\* clearCache of cacheImages unlinked; the two entries listed and compared
\* are those written since.
StaleEntryNotListed ==
  /\ pc = "comparing"
  /\ clearLog[1].unlinked
  /\ clearLog[1].ok
  /\ Len(listing) = 2
  /\ StaleName \notin Range(listing)
  /\ DOMAIN calls # {}

\* The sizes of the results in the order createChart scans them, as the
\* listing alone determines them: subject by subject, other by other.  And
\* the first position of a value in a sequence.
SizesScanned ==
  LET n == Len(listing)
  IN  [p \in 1..(n * (n - 1)) |->
        ResultSize(OtherAt(((p - 1) \div (n - 1)) + 1, ((p - 1) % (n - 1)) + 1))]
FirstAt(q, s) ==
  CHOOSE p \in 1..Len(q) : q[p] = s /\ \A r \in 1..(p - 1) : q[r] # s

\* C16: createChart's labels are the sizes in the order each is first met in
\* the flattened results (subjects in listing order, others in listing
\* order): an order the listing determines, whatever order the
\* recognizeFace calls resolved in.
LabelsInFirstSeenOrder ==
  chart.emitted =>
    LET labels == chart.config.labels
    IN  /\ Range(labels) = Range(SizesScanned)
        /\ \A a, b \in 1..Len(labels) :
             a < b => FirstAt(SizesScanned, labels[a]) < FirstAt(SizesScanned, labels[b])

\* C16 witness: calls resolved out of the order they were made in; of the
\* two sizes, the first met is met again after the second, and is still the
\* first label.
LabelsAfterOutOfOrderScores ==
  /\ chart.emitted
  /\ outOfOrder
  /\ Len(chart.config.labels) = 2
  /\ \E p \in 1..Len(SizesScanned) :
       /\ SizesScanned[p] = chart.config.labels[1]
       /\ p > FirstAt(SizesScanned, chart.config.labels[2])

\* The positions of the given results that carry size s, and the sum of their
\* scores, counted score value by score value.
TaggedWith(flat, s) == {p \in 1..Len(flat) : flat[p].size = s}
RECURSIVE ScoreTotal(_, _, _)
ScoreTotal(flat, s, v) ==
  IF v = 0 THEN 0
  ELSE v * Cardinality({p \in TaggedWith(flat, s) : flat[p].score = v})
       + ScoreTotal(flat, s, v - 1)

\* C17: for each size createChart outputs, the bucket holds as many scores as
\* there are input results with that size, and the mean is the sum of their
\* scores over that count, whichever subject or image they came from.
MeanOverAllAndOnlyTagged ==
  chart.emitted =>
    LET flat == Flat(results)
    IN  \A i \in 1..Len(chart.config.labels) :
          /\ chart.config.data[i].n = Cardinality(TaggedWith(flat, chart.config.labels[i]))
          /\ chart.config.data[i].sum = ScoreTotal(flat, chart.config.labels[i], MaxScore)

\* C17 witness: four results of two sizes, the three of one size not all
\* next to each other, with a mean of 2 / 3 in units of the highest score.
MeanOfThreeScatteredScores ==
  /\ chart.emitted
  /\ Len(chart.config.labels) = 2
  /\ LET flat == Flat(results)
     IN  /\ Len(flat) = 4
         /\ flat[1].size = flat[3].size
         /\ flat[1].size # flat[2].size
         /\ \E i \in 1..2 : chart.config.data[i] = [sum |-> 2 * MaxScore, n |-> 3]

\* The steps of a task: the Codec call settles, the file is opened, the
\* bytes are written; a failure ends it.
TaskSteps ==
  {<<"downscaling", "opening">>, <<"downscaling", "failed">>, <<"opening", "writing">>,
   <<"opening", "failed">>, <<"writing", "done">>}

\* Every operation is made once: one task per element pair of images and
\* sizes, one call per ordered pair of distinct entries.
OneOperationEach ==
  /\ tasks # EmptyMap => DOMAIN tasks = (1..Len(images)) \X (1..Len(sizes))
  /\ pc \in {"populate", "readCache", "comparing"} =>
       Cardinality(DOMAIN tasks) = Len(images) * Len(sizes)
  /\ pc = "comparing" =>
       /\ Cardinality(DOMAIN calls) = Len(listing) * (Len(listing) - 1)
       /\ \A c, d \in DOMAIN calls :
            (Face1(listing, c) = Face1(listing, d) /\ Face2(listing, c) = Face2(listing, d))
              => c = d

\* No operation is made again: a task only moves forward through its steps
\* and none is added once they are started; a call is resolved once and none
\* is added once they are made.
NoOperationAgain ==
  /\ \A t \in DOMAIN tasks :
       /\ t \in DOMAIN tasks'
       /\ tasks'[t].st = tasks[t].st \/ <<tasks[t].st, tasks'[t].st>> \in TaskSteps
       /\ tasks[t].st \in {"opening", "writing", "done"} =>
            tasks'[t].buf = tasks[t].buf /\ tasks'[t].name = tasks[t].name
  /\ tasks # EmptyMap => DOMAIN tasks' = DOMAIN tasks
  /\ \A c \in DOMAIN calls :
       /\ c \in DOMAIN calls'
       /\ calls[c].score # -1 => calls'[c] = calls[c]
  /\ calls # EmptyMap => DOMAIN calls' = DOMAIN calls

\* C18: nothing is retried: the Codec is called once per (image, size)
\* element pair (m * k calls, also when outputs collide), each buffer is
\* written once, and recognizeFace is called once per ordered pair of
\* distinct cache entries.
NoRetries == []OneOperationEach /\ [][NoOperationAgain]_vars

\* C18 witness: a run to the chart in which two tasks each made one Codec
\* call and one write, and two recognizeFace calls were each resolved once.
EveryOperationOnce ==
  /\ chart.emitted
  /\ Cardinality(DOMAIN tasks) = 2
  /\ \A t \in DOMAIN tasks : tasks[t].st = "done"
  /\ Cardinality(DOMAIN calls) = 2
  /\ \A c \in DOMAIN calls : calls[c].score # -1

\* The sizes element is a positive integer, and the requested widths as
\* parseInt returns numbers.
PositiveInteger(e) == e.k = "num" /\ e.n > 0
RequestedWidths == {JsInt(sizes[j].n) : j \in {i \in 1..Len(sizes) : sizes[i].k = "num"}}

\* C19: the size compare parses from the name of the file written for a
\* positive integer width w is w; with only such widths requested, every
\* size in the results and every label of the chart is a requested width.
SizeRoundTrip ==
  /\ \A t \in DOMAIN tasks :
       (Named(t) /\ PositiveInteger(sizes[t[2]])) =>
         /\ ResultSize(tasks[t].name) = JsInt(sizes[t[2]].n)
         /\ \A c \in DOMAIN calls :
              Face2(listing, c) = tasks[t].name => calls[c].size = JsInt(sizes[t[2]].n)
  /\ (chart.emitted /\ \A j \in 1..Len(sizes) : PositiveInteger(sizes[j])) =>
       /\ \A p \in 1..Len(Flat(results)) : Flat(results)[p].size \in RequestedWidths
       /\ Range(chart.config.labels) \subseteq RequestedWidths

\* C19 witness: the widths 9 and 10, of one and of two digits, came back as
\* the chart's labels.
WidthsNineAndTenRead ==
  /\ chart.emitted
  /\ sizes = <<Num(9), Num(10)>>
  /\ Range(chart.config.labels) = {JsInt(9), JsInt(10)}
  /\ \A c \in DOMAIN calls : calls[c].size \in {JsInt(9), JsInt(10)}

====
